---- MODULE Spec2Model ----
(***************************************************************************)
(* A model of gitlab-unfurly (unfurl_message.py): the path classifier      *)
(* parse_path, PathInfo.quoted_id, the dispatcher get_handler, the text    *)
(* sanitizer prepare_description and the per-link loop of the serverless   *)
(* handler unfurl.                                                         *)
(*                                                                         *)
(* Python strings are modelled as sequences of one-character strings, so   *)
(* that the regular expressions of parse_path, str.split and               *)
(* urllib.parse.quote are computed character by character.  An optional    *)
(* value (None or a value) is a sequence of length 0 or 1.                 *)
(***************************************************************************)
EXTENDS Integers, Sequences, FiniteSets, TLC

VARIABLES
    path,       \* parse_path: the path argument
    fragment,   \* parse_path: the fragment argument (optional string)
    ret,        \* parse_path: the outcome of the call, or Pending
    event_type, \* unfurl: request_json["type"]
    links,      \* unfurl: the raw urls of request_json["event"]["links"]
    idx,        \* unfurl: position of the for loop (1-based)
    pc,         \* unfurl: position inside the loop body
    path_info,  \* unfurl: local variable path_info
    handler,    \* unfurl: local variable handler
    data,       \* unfurl: the JSON documents the handler has fetched so far
    parses,     \* unfurl: the calls of parse_path, in order
    gets,       \* unfurl: the GETs issued on the session, in order
    unfurls,    \* unfurl: the chat.unfurl calls issued, in order
    response,   \* unfurl: what unfurl returned, or the exception it raised
    description, \* prepare_description: the description argument
    width,      \* prepare_description: the width argument
    prepared    \* prepare_description: the outcome of the call (of the
                \* "text" entry of a builder, when handler is set), or Pending

vars == <<path, fragment, ret, event_type, links, idx, pc, path_info, handler,
          data, parses, gets, unfurls, response, description, width,
          prepared>>

parseVars == <<path, fragment, ret>>
textVars == <<description, width, prepared>>
unfurlVars == <<event_type, links, idx, pc, path_info, handler, data, parses,
                gets, unfurls, response>>

----------------------------------------------------------------------------
(* Bounds of the model.                                                    *)

\* number of '/'-separated segments before the optional type/identifier
MaxSegs == 4
\* number of links in one inbound event
MaxLinks == 2
\* number of characters or tags of a description
MaxText == 5
\* largest width prepare_description is called with directly
MaxWidth == 4

----------------------------------------------------------------------------
(* Optional values and strings.                                            *)

None == <<>>
Some(x) == <<x>>
Val(o) == o[1]

Letters == {"a", "b", "c", "d", "e", "f", "g", "h", "i", "j", "k", "l", "m",
            "n", "o", "p", "q", "r", "s", "t", "u", "v", "w", "x", "y", "z",
            "A", "B", "C", "D", "E", "F", "L"}
Digits == {"0", "1", "2", "3", "4", "5", "6", "7", "8", "9"}

\* \w of Python's re on str patterns, restricted to the model's alphabet
WordChars == Letters \cup Digits \cup {"_"}
\* [\w-]
TokenChars == WordChars \cup {"-"}
\* [\w/-]
SubgroupChars == TokenChars \cup {"/"}

Slash == "/"
Newline == "\n"

\* s[from..to-1] : the Python slice s[from-1:to-1] on 1-based positions
Slice(s, from, to) == SubSeq(s, from, to - 1)

\* first position >= i whose character is not in class cs (Len(s)+1 if none)
RECURSIVE RunEnd(_, _, _)
RunEnd(s, i, cs) ==
    IF i <= Len(s) /\ s[i] \in cs THEN RunEnd(s, i + 1, cs) ELSE i

\* does the literal lit occur in s at position i
StartsAt(s, i, lit) ==
    /\ i + Len(lit) - 1 <= Len(s)
    /\ \A k \in 1..Len(lit) : s[i + k - 1] = lit[k]

CharAt(s, i, c) == i <= Len(s) /\ s[i] = c

SetMin(S) == CHOOSE x \in S : \A y \in S : x <= y

\* first position >= i of a character of cs in s, Len(s) + 1 if there is none
Find(s, i, cs) == SetMin({k \in i..Len(s) : s[k] \in cs} \cup {Len(s) + 1})

----------------------------------------------------------------------------
(* Path parsing utils: PathType, PathInfo, parse_path.                     *)

\* class PathType(Enum): the values of the members
PathType == {"project", "commit", "merge_requests", "issues", "pipelines",
             "jobs", "note_issues", "note_merge_requests"}

\* the alternatives of the (?P<type>...) group, in the order of the pattern
TypeKeywords == <<"issues", "merge_requests", "commit", "pipelines", "jobs">>

\* the characters of each alternative
KeywordChars ==
    [issues |-> <<"i", "s", "s", "u", "e", "s">>,
     merge_requests |-> <<"m", "e", "r", "g", "e", "_", "r", "e", "q", "u",
                          "e", "s", "t", "s">>,
     commit |-> <<"c", "o", "m", "m", "i", "t">>,
     pipelines |-> <<"p", "i", "p", "e", "l", "i", "n", "e", "s">>,
     jobs |-> <<"j", "o", "b", "s">>]

\* class PathInfo (attr.s): identifier, subgroups and note default to None
PathInfo(type, team, project, identifier, subgroups, note) ==
    [type |-> type, team |-> team, project |-> project,
     identifier |-> identifier, subgroups |-> subgroups, note |-> note]

\* the outcome of a call: a returned value or a raised exception
Return(v) == [exc |-> "", value |-> Some(v)]
Raise(e) == [exc |-> e, value |-> None]
Returned(o) == o.exc = ""

\* '$' without re.MULTILINE: the end of the string, or just before a newline
\* that is the last character of the string
AtEnd(s, j) == j = Len(s) + 1 \/ (j = Len(s) /\ s[j] = Newline)

\* OptSlashEnd without the '\/?': a pattern that ends in '$' alone
OptSlashEnd_no_slash(s, j) == AtEnd(s, j)

\* '\/?$' at position j: the slash is tried first, then no slash
OptSlashEnd(s, j) == (CharAt(s, j, Slash) /\ AtEnd(s, j + 1)) \/ AtEnd(s, j)

\* '(?P<identifier>\w+)\/?$' at position u, the identifier ending before e:
\* greedy, so e goes from the end of the run of \w down to u + 1
RECURSIVE IdentifierMatch(_, _, _)
IdentifierMatch(s, u, e) ==
    IF e <= u THEN None
    ELSE IF OptSlashEnd(s, e) THEN Some(Slice(s, u, e))
    ELSE IdentifierMatch(s, u, e - 1)

\* the groups r of the rest of a match, with the group matched before them
WithGroup(r, group) == IF r = None THEN None ELSE Some(group @@ Val(r))

\* '(?P<type>issues|merge_requests|commit|pipelines|jobs)\/(?P<identifier>\w+)\/?$'
\* at position t: the alternatives are tried in order, from the k-th on
RECURSIVE TypeMatch(_, _, _)
TypeMatch(s, t, k) ==
    IF k > Len(TypeKeywords) THEN None
    ELSE LET kw == KeywordChars[TypeKeywords[k]]
             u == t + Len(kw) + 1
             id == IF StartsAt(s, t, kw) /\ CharAt(s, t + Len(kw), Slash)
                   THEN IdentifierMatch(s, u, RunEnd(s, u, WordChars))
                   ELSE None
         IN  IF id # None
             THEN Some([type |-> TypeKeywords[k], identifier |-> Val(id)])
             ELSE TypeMatch(s, t, k + 1)

\* '-?\/?' at position q followed by the type group: both optional elements
\* are greedy, so the n-th try is 1: "-/", 2: "-", 3: "/", 4: neither
RECURSIVE OptDashSlash(_, _, _)
OptDashSlash(s, q, n) ==
    IF n > 4 THEN None
    ELSE LET dash == n <= 2
             slash == n \in {1, 3}
             t == q + (IF dash THEN 1 ELSE 0) + (IF slash THEN 1 ELSE 0)
             r == IF /\ dash => CharAt(s, q, "-")
                     /\ slash => CharAt(s, t - 1, Slash)
                  THEN TypeMatch(s, t, 1) ELSE None
         IN  IF r # None THEN r ELSE OptDashSlash(s, q, n + 1)

\* '\/-?\/?(?P<type>...)...$' at position q, the end of the project group
ResourceRest(s, q) ==
    IF CharAt(s, q, Slash) THEN OptDashSlash(s, q + 1, 1) ELSE None

\* '\/?$' at position q, the end of the project group (the project pattern)
ProjectRest(s, q) ==
    IF OptSlashEnd(s, q) THEN Some([type |-> "project", identifier |-> <<>>])
    ELSE None

\* what follows the project group in the first pattern (pat = 1, line 402)
\* and in the second (pat = 2, line 422)
Rest(pat, s, q) == IF pat = 1 THEN ResourceRest(s, q) ELSE ProjectRest(s, q)

\* '(?P<project>[\w-]+)' at position p, the project ending before e,
\* followed by the rest: greedy, so e goes from the end of the run of
\* [\w-] down to p + 1
RECURSIVE ProjectMatch(_, _, _, _)
ProjectMatch(pat, s, p, e) ==
    IF e <= p THEN None
    ELSE LET r == WithGroup(Rest(pat, s, e), [project |-> Slice(s, p, e)])
         IN  IF r # None THEN r ELSE ProjectMatch(pat, s, p, e - 1)

\* '(?P<subgroups>[\w/-]*?)\/?' at position a followed by the project
\* group: lazy, so the subgroups end before e = a, a + 1, ... up to the end
\* of the run of [\w/-], and for each e the optional slash is tried first
\* (try 1), then no slash (try 2)
RECURSIVE SubgroupsMatch(_, _, _, _, _)
SubgroupsMatch(pat, s, a, e, try) ==
    IF e > RunEnd(s, a, SubgroupChars) THEN None
    ELSE LET p == IF try = 1 THEN e + 1 ELSE e
             r == IF try = 1 /\ ~CharAt(s, e, Slash) THEN None
                  ELSE WithGroup(ProjectMatch(pat, s, p,
                                              RunEnd(s, p, TokenChars)),
                                 [subgroups |-> Slice(s, a, e)])
         IN  IF r # None THEN r
             ELSE SubgroupsMatch(pat, s, a, IF try = 1 THEN e ELSE e + 1,
                                 IF try = 1 THEN 2 ELSE 1)

\* '^\/(?P<team>[\w-]+)\/' with the team ending before e, followed by the
\* subgroups group: greedy, so e goes from the end of the run of [\w-] down
\* to 3
RECURSIVE TeamMatch(_, _, _)
TeamMatch(pat, s, e) ==
    IF e < 3 THEN None
    ELSE LET r == IF CharAt(s, e, Slash)
                  THEN WithGroup(SubgroupsMatch(pat, s, e + 1, e + 1, 1),
                                 [team |-> Slice(s, 2, e)])
                  ELSE None
         IN  IF r # None THEN r ELSE TeamMatch(pat, s, e - 1)

\* re.match(pattern, path) for the pattern of line 402 (pat = 1) or of line
\* 422 (pat = 2): the groups of the match, or None
Match(pat, s) ==
    IF ~CharAt(s, 1, Slash) THEN None
    ELSE TeamMatch(pat, s, RunEnd(s, 2, TokenChars))

\* fragment.split("_")[1]: the text between the first and the second "_"
\* (None stands for the IndexError of a fragment without "_")
SplitSecond(f) ==
    LET us == {k \in 1..Len(f) : f[k] = "_"}
    IN  IF us = {} THEN None
        ELSE LET k == SetMin(us)
                 later == {j \in us : j > k}
             IN  Some(Slice(f, k + 1,
                            IF later = {} THEN Len(f) + 1 ELSE SetMin(later)))

\* OrNone without the 'or None': an empty group stays the empty string
OrNone_keeps_empty(s) == Some(s)

\* 'subgroups or None'
OrNone(s) == IF s = <<>> THEN None ELSE Some(s)

\* 'if fragment:'
Truthy(f) == f # None /\ Val(f) # <<>>

\* path_type_of without line 408: the type is not promoted to its note type
path_type_of_unpromoted(type, f) == type

\* lines 405-408: the type keyword, prefixed with "note_" if there is a
\* fragment
path_type_of(type, f) == IF Truthy(f) THEN "note_" \o type ELSE type

\* lines 406-409: the note; None inside Some stands for Python's None, the
\* outer None for the IndexError of fragment.split("_")[1]
note_of(f) == IF Truthy(f)
              THEN (IF SplitSecond(Val(f)) = None THEN None
                    ELSE Some(SplitSecond(Val(f))))
              ELSE Some(None)

\* lines 404-419: the first pattern has matched with the groups g
resource_info(g, f) ==
    IF note_of(f) = None THEN Raise("IndexError")
    ELSE IF path_type_of(g.type, f) \notin PathType THEN Raise("ValueError")
    ELSE Return(PathInfo(path_type_of(g.type, f), g.team, g.project,
                         Some(g.identifier), OrNone(g.subgroups),
                         Val(note_of(f))))

\* lines 424-430: the second pattern has matched with the groups g
project_info(g) ==
    Return(PathInfo("project", g.team, g.project, None, OrNone(g.subgroups),
                    None))

\* lines 421-432: the first pattern has not matched; m is the match of the
\* second
parse_project_path(m) ==
    IF m # None THEN project_info(Val(m)) ELSE Raise("ValueError")

\* lines 401-432: m is the match of the first pattern
parse_resource_path(m, p, f) ==
    IF m # None THEN resource_info(Val(m), f)
    ELSE parse_project_path(Match(2, p))

parse_path(p, f) == parse_resource_path(Match(1, p), p, f)

----------------------------------------------------------------------------
(* PathInfo.quoted_id and urllib.parse.quote.                              *)

\* the characters quote never encodes (RFC 3986 unreserved)
AlwaysSafe == Letters \cup Digits \cup {"_", ".", "-", "~"}

\* '%XX' of the characters of the model's alphabet that are not unreserved
PercentCode(c) ==
    CASE c = "/" -> <<"%", "2", "F">>
      [] c = "%" -> <<"%", "2", "5">>
      [] c = Newline -> <<"%", "0", "A">>

RECURSIVE quote(_, _)
quote(s, safe) ==
    IF s = <<>> THEN <<>>
    ELSE (IF Head(s) \in AlwaysSafe \cup safe THEN <<Head(s)>>
          ELSE PercentCode(Head(s))) \o quote(Tail(s), safe)

\* quoted_id with quote's default safe="/" instead of safe=""
quoted_id_slash_safe(info) ==
    IF info.subgroups # None /\ Val(info.subgroups) # <<>>
    THEN quote(info.team \o <<Slash>> \o Val(info.subgroups) \o <<Slash>>
               \o info.project, {Slash})
    ELSE quote(info.team \o <<Slash>> \o info.project, {Slash})

quoted_id(info) ==
    IF info.subgroups # None /\ Val(info.subgroups) # <<>>
    THEN quote(info.team \o <<Slash>> \o Val(info.subgroups) \o <<Slash>>
               \o info.project, {})
    ELSE quote(info.team \o <<Slash>> \o info.project, {})

----------------------------------------------------------------------------
(* Dispatcher.                                                             *)

\* HANDLERS with the entry of PathType.JOB pasted from PathType.PIPELINE
HANDLERS_job_as_pipeline ==
    [commit |-> "get_commit_info",
     issues |-> "get_issues_info",
     jobs |-> "get_pipelines_info",
     merge_requests |-> "get_merge_requests_info",
     pipelines |-> "get_pipelines_info",
     project |-> "get_project_info",
     note_issues |-> "get_note_issues_info",
     note_merge_requests |-> "get_note_merge_requests_info"]

\* HANDLERS: a dict from PathType member to handler function
HANDLERS ==
    [commit |-> "get_commit_info",
     issues |-> "get_issues_info",
     jobs |-> "get_jobs_info",
     merge_requests |-> "get_merge_requests_info",
     pipelines |-> "get_pipelines_info",
     project |-> "get_project_info",
     note_issues |-> "get_note_issues_info",
     note_merge_requests |-> "get_note_merge_requests_info"]

\* HANDLERS.get(path_info.type), ValueError if there is none
get_handler(info) ==
    IF info.type \in DOMAIN HANDLERS THEN Return(HANDLERS[info.type])
    ELSE Raise("ValueError")

----------------------------------------------------------------------------
(* The calls of parse_path: the arguments are drawn from bounded sets.     *)

Pending == [exc |-> "pending", value |-> None]

\* the segments a path is built from: a name, the hyphen (a name, or the
\* "-" before the type keyword), the empty segment (consecutive slashes) and
\* a segment with a character no pattern allows
NameSegs == {<<>>, <<"a">>, <<"-">>, <<".">>}

RECURSIVE SegLists(_)
SegLists(n) ==
    IF n = 0 THEN {<<>>}
    ELSE LET shorter == SegLists(n - 1)
         IN  shorter \cup {Append(l, g) : l \in {x \in shorter : Len(x) = n - 1},
                                           g \in NameSegs}

RECURSIVE JoinSlashed(_)
JoinSlashed(segs) ==
    IF segs = <<>> THEN <<>>
    ELSE <<Slash>> \o Head(segs) \o JoinSlashed(Tail(segs))

Identifiers == {<<"7">>}

\* nothing, or '/<type>/<identifier>' for each type keyword
Suffixes ==
    {<<>>} \cup {<<Slash>> \o KeywordChars[TypeKeywords[k]] \o <<Slash>> \o id :
                    k \in 1..Len(TypeKeywords), id \in Identifiers}

\* how a path ends: as it is, with a slash, or with a newline
Endings == {<<>>, <<Slash>>, <<Newline>>}

Paths == {JoinSlashed(l) \o x \o e :
             l \in SegLists(MaxSegs), x \in Suffixes, e \in Endings}

Fragments == {None, Some(<<>>),
              Some(<<"n", "o", "t", "e", "_", "1">>),
              Some(<<"n", "o", "t", "e", "_", "1", "_", "2">>),
              Some(<<"L", "1">>)}

Idle ==
    /\ event_type = "" /\ links = <<>> /\ idx = 0 /\ pc = "idle"
    /\ path_info = None /\ handler = None /\ data = <<>>
    /\ parses = <<>> /\ gets = <<>> /\ unfurls = <<>> /\ response = Pending

\* prepare_description is not called
NoText == description = <<>> /\ width = 0 /\ prepared = Pending

InitParse ==
    /\ path \in Paths
    /\ fragment \in Fragments
    /\ ret = Pending
    /\ Idle
    /\ NoText

ParsePath ==
    /\ ret = Pending
    /\ ret' = parse_path(path, fragment)
    /\ UNCHANGED <<path, fragment>>
    /\ UNCHANGED unfurlVars
    /\ UNCHANGED textVars

NextParse == ParsePath

SpecParse == InitParse /\ [][NextParse]_vars

----------------------------------------------------------------------------
(* prepare_description: strip_html_tags, str.strip and textwrap.shorten.   *)

\* the whitespace of str.strip and str.split, in the model's alphabet
Whitespace == {" ", Newline}

\* the single character "…" (U+2026), the placeholder of textwrap.shorten
Ellipsis == "U+2026"

\* is the character of s at position i, if there is one, in class cs
InClass(s, i, cs) == i >= 1 /\ i <= Len(s) /\ s[i] \in cs

\* last position <= i whose character is not in class cs (0 if none)
RECURSIVE RunStart(_, _, _)
RunStart(s, i, cs) ==
    IF i >= 1 /\ s[i] \in cs THEN RunStart(s, i - 1, cs) ELSE i

\* s.strip()
strip(s) == SubSeq(s, RunEnd(s, 1, Whitespace), RunStart(s, Len(s), Whitespace))

\* bleach.clean(value, tags=[], strip=True) on a text whose "<" all open a
\* tag or a comment that a ">" closes: every tag and comment is removed
\* (the text from position i on, up to the next tag and after it)
RECURSIVE StripFrom(_, _)
StripFrom(s, i) ==
    IF Find(s, Find(s, i, {"<"}), {">"}) > Len(s)
    THEN Slice(s, i, Len(s) + 1)
    ELSE Slice(s, i, Find(s, i, {"<"}))
         \o StripFrom(s, Find(s, Find(s, i, {"<"}), {">"}) + 1)

strip_html_tags(value) == StripFrom(value, 1)

\* s.split(): the words of s from position i on
RECURSIVE SplitWords(_, _)
SplitWords(s, i) ==
    IF RunEnd(s, i, Whitespace) > Len(s) THEN <<>>
    ELSE <<Slice(s, RunEnd(s, i, Whitespace),
                 Find(s, RunEnd(s, i, Whitespace), Whitespace))>>
         \o SplitWords(s, Find(s, RunEnd(s, i, Whitespace), Whitespace))

\* ' '.join(words)
RECURSIVE JoinSpaced(_)
JoinSpaced(words) ==
    IF words = <<>> THEN <<>>
    ELSE IF Len(words) = 1 THEN Head(words)
    ELSE Head(words) \o <<" ">> \o JoinSpaced(Tail(words))

\* ''.join(chunks)
RECURSIVE Flatten(_)
Flatten(chunks) ==
    IF chunks = <<>> THEN <<>> ELSE Head(chunks) \o Flatten(Tail(chunks))

\* [^\d\W] and [\w!"'&.,?] of TextWrapper.wordsep_re
LetterChars == Letters \cup {"_"}
DashLead == WordChars \cup {"!", "\"", "'", "&", ".", ",", "?"}

\* wordsep_re, '-{2,}(?=\w)' at position e after a character of DashLead:
\* an em-dash between words
EmDashAt(s, e) ==
    /\ InClass(s, e - 1, DashLead)
    /\ RunEnd(s, e, {"-"}) - e >= 2
    /\ InClass(s, RunEnd(s, e, {"-"}), WordChars)

\* wordsep_re, the hyphen at position e of a hyphenated word: two letters,
\* or letter-hyphen-letter, before it; letter, optional hyphen, letter after
HyphenAt(s, e) ==
    /\ InClass(s, e, {"-"})
    /\ InClass(s, e - 1, LetterChars)
    /\ \/ InClass(s, e - 2, LetterChars)
       \/ InClass(s, e - 2, {"-"}) /\ InClass(s, e - 3, LetterChars)
    /\ InClass(s, e + 1, LetterChars)
    /\ \/ InClass(s, e + 2, LetterChars)
       \/ InClass(s, e + 2, {"-"}) /\ InClass(s, e + 3, LetterChars)

\* wordsep_re, the word alternative '[^\s]+?(...)' from a position before e:
\* the position after the chunk, for the shortest word that ends at e or
\* later with a hyphen of a hyphenated word, the end of the word or an
\* em-dash
RECURSIVE WordChunkEnd(_, _)
WordChunkEnd(s, e) ==
    IF HyphenAt(s, e) THEN e + 1
    ELSE IF e > Len(s) \/ s[e] \in Whitespace \/ EmDashAt(s, e) THEN e
    ELSE WordChunkEnd(s, e + 1)

\* wordsep_re at position p: the position after the chunk that starts there
ChunkEnd(s, p) ==
    IF s[p] \in Whitespace THEN RunEnd(s, p, Whitespace)
    ELSE IF EmDashAt(s, p) THEN RunEnd(s, p, {"-"})
    ELSE WordChunkEnd(s, p + 1)

\* TextWrapper._split: the chunks of s from position p on
RECURSIVE Chunks(_, _)
Chunks(s, p) ==
    IF p > Len(s) THEN <<>>
    ELSE <<Slice(s, p, ChunkEnd(s, p))>> \o Chunks(s, ChunkEnd(s, p))

\* _wrap_chunks, the inner loop: how many chunks, after the first k of
\* length len together, fit on a line of the width
RECURSIVE Fitting(_, _, _, _)
Fitting(chunks, k, len, w) ==
    IF k < Len(chunks) /\ len + Len(chunks[k + 1]) <= w
    THEN Fitting(chunks, k + 1, len + Len(chunks[k + 1]), w)
    ELSE k

\* chunk.rfind('-', 0, space_left): the 0-based index, -1 if there is none
RECURSIVE rfind_hyphen(_, _)
rfind_hyphen(chunk, below) ==
    IF below <= 0 THEN 0 - 1
    ELSE IF below <= Len(chunk) /\ chunk[below] = "-" THEN below - 1
    ELSE rfind_hyphen(chunk, below - 1)

\* _handle_long_word with break_long_words and break_on_hyphens: the part
\* of the chunk put on the line, which has space_left characters left
LongWordEnd(chunk, space_left, hyphen) ==
    IF hyphen > 0 /\ \E k \in 1..hyphen : chunk[k] # "-"
    THEN hyphen + 1
    ELSE space_left

LongWordPiece(chunk, space_left) ==
    SubSeq(chunk, 1, LongWordEnd(chunk, space_left,
                                 rfind_hyphen(chunk, space_left)))

\* _wrap_chunks: the current line once the first k chunks are on it: a
\* chunk too long for any line is broken onto it, then a chunk of
\* whitespace (or empty) at its end is dropped
WithLongWord(chunks, k, w) ==
    IF k < Len(chunks) /\ Len(chunks[k + 1]) > w
    THEN Append(SubSeq(chunks, 1, k),
                LongWordPiece(chunks[k + 1],
                              w - Len(Flatten(SubSeq(chunks, 1, k)))))
    ELSE SubSeq(chunks, 1, k)

DropBlank(line) ==
    IF line # <<>> /\ strip(line[Len(line)]) = <<>>
    THEN SubSeq(line, 1, Len(line) - 1)
    ELSE line

\* the placeholder left out of the count against the width
RECURSIVE WithPlaceholder_uncounted(_, _)
WithPlaceholder_uncounted(line, w) ==
    IF line = <<>> THEN <<Ellipsis>>
    ELSE IF /\ strip(line[Len(line)]) # <<>>
            /\ Len(Flatten(line)) <= w
    THEN Flatten(line) \o <<Ellipsis>>
    ELSE WithPlaceholder_uncounted(SubSeq(line, 1, Len(line) - 1), w)

\* _wrap_chunks with max_lines = 1, text is left over: chunks are taken off
\* the end of the line until it ends in a word and the placeholder fits
RECURSIVE WithPlaceholder(_, _)
WithPlaceholder(line, w) ==
    IF line = <<>> THEN <<Ellipsis>>
    ELSE IF /\ strip(line[Len(line)]) # <<>>
            /\ Len(Flatten(line)) + 1 <= w
    THEN Flatten(line) \o <<Ellipsis>>
    ELSE WithPlaceholder(SubSeq(line, 1, Len(line) - 1), w)

\* TextWrapper(width=w, max_lines=1, placeholder="…").fill, from the chunks
\* of the text, the first k of which fit on the line
FillLine(chunks, k, w) ==
    IF k = Len(chunks) THEN Flatten(chunks)
    ELSE WithPlaceholder(DropBlank(WithLongWord(chunks, k, w)), w)

fill(chunks, w) == FillLine(chunks, Fitting(chunks, 0, 0, w), w)

\* textwrap.shorten(text, w, placeholder="…"): _wrap_chunks raises
\* ValueError for a width below 1
shorten(text, w) ==
    IF w <= 0 THEN Raise("ValueError")
    ELSE Return(fill(Chunks(JoinSpaced(SplitWords(text, 1)), 1), w))

\* lines 56-59
prepare_description(d, w) == shorten(strip(strip_html_tags(d)), w)

\* def prepare_description(description, *, width=100)
DefaultWidth == 100

\* the handlers whose attachment has a "text" entry
TextHandlers ==
    {"get_issues_info", "get_note_issues_info", "get_merge_requests_info",
     "get_note_merge_requests_info", "get_project_info"}

\* the "text" entry of the attachment of handler h, from the description
\* (or, for a note, the body) of the document it fetched: lines 141, 165,
\* 218, 242 and 283
text_of(h, free) ==
    CASE h = "get_issues_info" -> prepare_description(free, 300)
      [] h = "get_note_issues_info" -> prepare_description(strip(free), 300)
      [] h = "get_merge_requests_info" ->
            prepare_description(free, DefaultWidth)
      [] h = "get_note_merge_requests_info" -> shorten(strip(free), 300)
      [] h = "get_project_info" -> prepare_description(free, DefaultWidth)

\* the descriptions prepare_description is called with: up to MaxText
\* letters, hyphens, blanks, newlines and tags
TextTokens == {<<"a">>, <<"-">>, <<" ">>, <<Newline>>, <<"<", "b", ">">>}

RECURSIVE DescriptionsOf(_)
DescriptionsOf(n) ==
    IF n = 0 THEN {<<>>}
    ELSE {d \o t : d \in DescriptionsOf(n - 1), t \in TextTokens}

Descriptions == UNION {DescriptionsOf(n) : n \in 0..MaxText}

\* a word of n letters
Word(n) == [k \in 1..n |-> "a"]

\* the descriptions and bodies the builders are called with: a short text
\* with tags, and texts of 104 and of 305 characters, without and with tags
Long104 == Word(50) \o <<" ">> \o Word(53)
Long305 ==
    Word(50) \o <<" ">> \o Word(50) \o <<" ">> \o Word(50) \o <<" ">>
    \o Word(50) \o <<" ">> \o Word(50) \o <<" ">> \o Word(50)

FreeTexts ==
    {<<"<", "b", ">", "a", "<", "/", "b", ">", " ", "a">>,
     Long104,
     Long305,
     <<"<", "b", ">">> \o Long104 \o <<"<", "/", "b", ">">>,
     <<"<", "b", ">">> \o Long305 \o <<"<", "/", "b", ">">>}

InitText ==
    /\ \/ /\ handler = None
          /\ description \in Descriptions
          /\ width \in 0..MaxWidth
       \/ /\ handler \in {Some(h) : h \in TextHandlers}
          /\ description \in FreeTexts
          /\ width = 0
    /\ prepared = Pending
    /\ event_type = "" /\ links = <<>> /\ idx = 0 /\ pc = "idle"
    /\ path_info = None /\ data = <<>>
    /\ parses = <<>> /\ gets = <<>> /\ unfurls = <<>> /\ response = Pending
    /\ path = <<>> /\ fragment = None /\ ret = Pending

\* a call of prepare_description
PrepareDescription ==
    /\ handler = None
    /\ prepared = Pending
    /\ prepared' = prepare_description(description, width)
    /\ UNCHANGED <<description, width>>
    /\ UNCHANGED unfurlVars
    /\ UNCHANGED parseVars

\* a builder makes the "text" entry of its attachment
BuildText ==
    /\ handler # None
    /\ prepared = Pending
    /\ prepared' = text_of(Val(handler), description)
    /\ UNCHANGED <<description, width>>
    /\ UNCHANGED unfurlVars
    /\ UNCHANGED parseVars

NextText == PrepareDescription \/ BuildText

SpecText == InitText /\ [][NextText]_vars

----------------------------------------------------------------------------
(* GitLab API: the paths each handler GETs and the keys its builder reads. *)

ApiProjects ==
    <<"/", "a", "p", "i", "/", "v", "4", "/", "p", "r", "o", "j", "e", "c",
      "t", "s", "/">>

ApiIssues ==
    <<"/", "i", "s", "s", "u", "e", "s", "/">>

ApiMergeRequests ==
    <<"/", "m", "e", "r", "g", "e", "_", "r", "e", "q", "u", "e", "s", "t",
      "s", "/">>

ApiNotes ==
    <<"/", "n", "o", "t", "e", "s", "/">>

ApiCommits ==
    <<"/", "r", "e", "p", "o", "s", "i", "t", "o", "r", "y", "/", "c", "o",
      "m", "m", "i", "t", "s", "/">>

ApiPipelines ==
    <<"/", "p", "i", "p", "e", "l", "i", "n", "e", "s", "/">>

ApiJobs ==
    <<"/", "j", "o", "b", "s", "/">>

NoUnfurl ==
    <<"n", "o", "_", "u", "n", "f", "u", "r", "l">>

\* get_issue_data: the api_path of the issue
IssuePath(info) ==
    ApiProjects \o quoted_id(info) \o ApiIssues \o Val(info.identifier)

\* get_merge_request_data: the api_path of the merge request
MergeRequestPath(info) ==
    ApiProjects \o quoted_id(info) \o ApiMergeRequests \o Val(info.identifier)

\* the note handlers fetching the issue or merge request before the note
ApiPaths_base_first(h, info) ==
    CASE h = "get_issues_info" -> <<IssuePath(info)>>
      [] h = "get_note_issues_info" ->
            <<IssuePath(info), IssuePath(info) \o ApiNotes \o Val(info.note)>>
      [] h = "get_merge_requests_info" -> <<MergeRequestPath(info)>>
      [] h = "get_note_merge_requests_info" ->
            <<MergeRequestPath(info),
              MergeRequestPath(info) \o ApiNotes \o Val(info.note)>>
      [] h = "get_commit_info" ->
            <<ApiProjects \o quoted_id(info) \o ApiCommits
              \o Val(info.identifier)>>
      [] h = "get_project_info" -> <<ApiProjects \o quoted_id(info)>>
      [] h = "get_pipelines_info" ->
            <<ApiProjects \o quoted_id(info) \o ApiPipelines
              \o Val(info.identifier)>>
      [] h = "get_jobs_info" ->
            <<ApiProjects \o quoted_id(info) \o ApiJobs
              \o Val(info.identifier)>>

\* the api_path of each call of get_data_from_api a handler makes, in order
ApiPaths(h, info) ==
    CASE h = "get_issues_info" -> <<IssuePath(info)>>
      [] h = "get_note_issues_info" ->
            <<IssuePath(info) \o ApiNotes \o Val(info.note), IssuePath(info)>>
      [] h = "get_merge_requests_info" -> <<MergeRequestPath(info)>>
      [] h = "get_note_merge_requests_info" ->
            <<MergeRequestPath(info) \o ApiNotes \o Val(info.note),
              MergeRequestPath(info)>>
      [] h = "get_commit_info" ->
            <<ApiProjects \o quoted_id(info) \o ApiCommits
              \o Val(info.identifier)>>
      [] h = "get_project_info" -> <<ApiProjects \o quoted_id(info)>>
      [] h = "get_pipelines_info" ->
            <<ApiProjects \o quoted_id(info) \o ApiPipelines
              \o Val(info.identifier)>>
      [] h = "get_jobs_info" ->
            <<ApiProjects \o quoted_id(info) \o ApiJobs
              \o Val(info.identifier)>>

\* the top-level keys a handler subscripts in each document it fetched
\* (a missing one is a KeyError, which no 'except IndexError' catches)
RequiredKeys(h) ==
    CASE h = "get_issues_info" ->
            <<{"title", "description", "due_date", "milestone", "assignees",
               "state", "author", "created_at"}>>
      [] h = "get_note_issues_info" ->
            <<{"body", "author", "created_at"}, {"title", "state"}>>
      [] h = "get_merge_requests_info" ->
            <<{"title", "description", "assignee", "milestone", "state",
               "changes_count", "author", "created_at"}>>
      [] h = "get_note_merge_requests_info" ->
            <<{"body", "author", "created_at"}, {"title", "state"}>>
      [] h = "get_commit_info" -> <<{"title", "author_name", "created_at"}>>
      [] h = "get_project_info" ->
            <<{"description", "namespace", "avatar_url", "name",
               "created_at"}>>
      [] h = "get_pipelines_info" ->
            <<{"status", "ref", "started_at", "finished_at", "id", "user",
               "created_at"}>>
      [] h = "get_jobs_info" ->
            <<{"status", "stage", "started_at", "finished_at", "duration",
               "id", "name", "user", "created_at"}>>

\* the "footer" literal of the attachment each handler returns
Footer(h) ==
    CASE h = "get_issues_info" -> "Issue"
      [] h = "get_note_issues_info" -> "Issue note"
      [] h = "get_merge_requests_info" -> "Merge Request"
      [] h = "get_note_merge_requests_info" -> "Merge Request Note"
      [] h = "get_commit_info" -> "Commit"
      [] h = "get_project_info" -> "Project"
      [] h = "get_pipelines_info" -> "Pipeline"
      [] h = "get_jobs_info" -> "Pipeline Job"

\* what the session answers to a GET: a failure of get_data_from_api
\* (session.get raises ConnectionError, raise_for_status raises HTTPError,
\* response.json() raises JSONDecodeError), or a JSON object, given by its
\* keys: the empty object, the object the builder needs, or that object
\* with one key missing
Failure(e) == [error |-> e, json |-> {}]
Json(keys) == [error |-> "", json |-> keys]

Answers(h, n) ==
    {Failure("ConnectionError"), Failure("HTTPError"),
     Failure("JSONDecodeError")}
    \cup {Json({}), Json(RequiredKeys(h)[n])}
    \cup {Json(RequiredKeys(h)[n] \ {k}) : k \in RequiredKeys(h)[n]}

\* a builder that reads every key with a default (data.get) instead of a
\* subscript
build_with_defaults(h, docs) == Return([footer |-> Footer(h)])

\* the builder of handler h on the documents docs: the attachment, or the
\* KeyError of the first subscript of a missing key
build(h, docs) ==
    IF \A n \in 1..Len(docs) : RequiredKeys(h)[n] \subseteq docs[n].json
    THEN Return([footer |-> Footer(h)])
    ELSE Raise("KeyError")

----------------------------------------------------------------------------
(* The serverless handler unfurl.                                          *)

OK_RESPONSE == [statusCode |-> 204, body |-> ""]

\* the response to Slack's url verification
ChallengeResponse ==
    [statusCode |-> 200, body |-> "challenge",
     headers |-> "content-type: text/plain"]

\* raw_url.replace("\\", "")
RECURSIVE RemoveBackslashes(_)
RemoveBackslashes(s) ==
    IF s = <<>> THEN <<>>
    ELSE (IF Head(s) = "\\" THEN <<>> ELSE <<Head(s)>>)
         \o RemoveBackslashes(Tail(s))

\* urllib.parse.urlparse: the scheme up to the first ":", the netloc after
\* "//" up to the first of "/?#", then the fragment after the first "#",
\* then the query after the first "?"; what is left is the path
urlparse(u) ==
    LET colon == Find(u, 1, {":"})
        hasScheme == /\ 1 < colon /\ colon <= Len(u)
                     /\ \A k \in 1..(colon - 1) : u[k] \in Letters
        afterScheme == IF hasScheme THEN Slice(u, colon + 1, Len(u) + 1) ELSE u
        hasNetloc == StartsAt(afterScheme, 1, <<Slash, Slash>>)
        delim == Find(afterScheme, 3, {Slash, "?", "#"})
        afterNetloc == IF hasNetloc
                       THEN Slice(afterScheme, delim, Len(afterScheme) + 1)
                       ELSE afterScheme
        hash == Find(afterNetloc, 1, {"#"})
        beforeHash == Slice(afterNetloc, 1, hash)
        mark == Find(beforeHash, 1, {"?"})
    IN  [scheme |-> IF hasScheme THEN Slice(u, 1, colon) ELSE <<>>,
         netloc |-> IF hasNetloc THEN Slice(afterScheme, 3, delim) ELSE <<>>,
         path |-> Slice(beforeHash, 1, mark),
         query |-> Slice(beforeHash, mark + 1, Len(beforeHash) + 1),
         fragment |-> Slice(afterNetloc, hash + 1, Len(afterNetloc) + 1)]

\* 'lit in s'
Contains(s, lit) == \E i \in 1..(Len(s) + 1) : StartsAt(s, i, lit)

\* the raw urls the links of an event are drawn from
RawUrls == {
    \* an issue
    <<"h", "t", "t", "p", "s", ":", "/", "/", "g", "/", "a", "/", "b", "/",
      "i", "s", "s", "u", "e", "s", "/", "7">>,
    \* a merge request
    <<"h", "t", "t", "p", "s", ":", "/", "/", "g", "/", "a", "/", "b", "/",
      "m", "e", "r", "g", "e", "_", "r", "e", "q", "u", "e", "s", "t", "s",
      "/", "7">>,
    \* a commit of a project in a subgroup
    <<"h", "t", "t", "p", "s", ":", "/", "/", "g", "/", "a", "/", "c", "/",
      "b", "/", "c", "o", "m", "m", "i", "t", "/", "7">>,
    \* a pipeline
    <<"h", "t", "t", "p", "s", ":", "/", "/", "g", "/", "a", "/", "b", "/",
      "p", "i", "p", "e", "l", "i", "n", "e", "s", "/", "7">>,
    \* a job, with the slashes escaped as Slack sends them
    <<"h", "t", "t", "p", "s", ":", "\\", "/", "\\", "/", "g", "\\", "/",
      "a", "\\", "/", "b", "\\", "/", "-", "\\", "/", "j", "o", "b", "s",
      "\\", "/", "7">>,
    \* a project
    <<"h", "t", "t", "p", "s", ":", "/", "/", "g", "/", "a", "/", "b">>,
    \* a note on an issue
    <<"h", "t", "t", "p", "s", ":", "/", "/", "g", "/", "a", "/", "b", "/",
      "i", "s", "s", "u", "e", "s", "/", "7", "#", "n", "o", "t", "e", "_",
      "1">>,
    \* a note on a merge request
    <<"h", "t", "t", "p", "s", ":", "/", "/", "g", "/", "a", "/", "b", "/",
      "m", "e", "r", "g", "e", "_", "r", "e", "q", "u", "e", "s", "t", "s",
      "/", "7", "#", "n", "o", "t", "e", "_", "1">>,
    \* no project: parse_path matches no pattern
    <<"h", "t", "t", "p", "s", ":", "/", "/", "g", "/", "m", "a", "r", "i",
      "o">>,
    \* an issue, marked no_unfurl
    <<"h", "t", "t", "p", "s", ":", "/", "/", "g", "/", "a", "/", "b", "/",
      "i", "s", "s", "u", "e", "s", "/", "7", "?", "n", "o", "_", "u", "n",
      "f", "u", "r", "l">>,
    \* a commit with a note fragment: no PathType "note_commit"
    <<"h", "t", "t", "p", "s", ":", "/", "/", "g", "/", "a", "/", "b", "/",
      "c", "o", "m", "m", "i", "t", "/", "7", "#", "n", "o", "t", "e", "_",
      "1">>,
    \* an issue with a fragment without "_"
    <<"h", "t", "t", "p", "s", ":", "/", "/", "g", "/", "a", "/", "b", "/",
      "i", "s", "s", "u", "e", "s", "/", "7", "#", "L", "1">>,
    \* the same, marked no_unfurl among other parameters
    <<"h", "t", "t", "p", "s", ":", "/", "/", "g", "/", "a", "/", "b", "/",
      "i", "s", "s", "u", "e", "s", "/", "7", "?", "x", "&", "n", "o", "_",
      "u", "n", "f", "u", "r", "l", "=", "1", "#", "L", "1">>,
    \* a project whose fragment, not its query, holds the marker
    <<"h", "t", "t", "p", "s", ":", "/", "/", "g", "/", "a", "/", "b", "#",
      "n", "o", "_", "u", "n", "f", "u", "r", "l">>}

RECURSIVE SeqsUpTo(_, _)
SeqsUpTo(S, n) ==
    IF n = 0 THEN {<<>>}
    ELSE LET shorter == SeqsUpTo(S, n - 1)
         IN  shorter \cup {Append(l, x) : l \in {y \in shorter : Len(y) = n - 1},
                                           x \in S}

Init ==
    /\ \/ event_type = "url_verification" /\ links = <<>>
       \/ event_type = "event_callback" /\ links \in SeqsUpTo(RawUrls, MaxLinks)
    /\ idx = 1
    /\ pc = "start"
    /\ path_info = None
    /\ handler = None
    /\ data = <<>>
    /\ parses = <<>>
    /\ gets = <<>>
    /\ unfurls = <<>>
    /\ response = Pending
    /\ path = <<>> /\ fragment = None /\ ret = Pending
    /\ NoText

\* lines 457-469: the url verification is answered at once, any other event
\* enters the loop over its links
Receive ==
    /\ pc = "start"
    /\ IF event_type = "url_verification"
       THEN /\ response' = Return(ChallengeResponse)
            /\ pc' = "done"
       ELSE /\ pc' = "loop"
            /\ UNCHANGED response
    /\ UNCHANGED <<event_type, links, idx, path_info, handler, data, parses,
                   gets, unfurls>>
    /\ UNCHANGED parseVars
    /\ UNCHANGED textVars

\* 'continue'
Continue ==
    /\ idx' = idx + 1
    /\ UNCHANGED <<pc, path_info, handler, data, response>>

\* an exception nothing catches leaves unfurl
Propagate(e) ==
    /\ response' = Raise(e)
    /\ pc' = "done"
    /\ UNCHANGED <<idx, path_info, handler, data>>

\* lines 486-491: the handler found for the reference is called next
Dispatch(info, found) ==
    IF found.exc = "ValueError" THEN Continue
    ELSE /\ path_info' = Some(info)
         /\ handler' = found.value
         /\ data' = <<>>
         /\ pc' = "fetch"
         /\ UNCHANGED <<idx, response>>

\* lines 480-490: the outcome of parse_path; only its ValueError is caught
Parsed(parsed) ==
    IF parsed.exc = "ValueError" THEN Continue
    ELSE IF ~Returned(parsed) THEN Propagate(parsed.exc)
    ELSE Dispatch(Val(parsed.value), get_handler(Val(parsed.value)))

\* the loop body without the test of the marker
Url_marker_ignored(url) ==
    /\ parses' = Append(parses, [link |-> idx, path |-> url.path,
                                 fragment |-> url.fragment])
    /\ Parsed(parse_path(url.path, Some(url.fragment)))

\* lines 476-481: the parsed url of the link
Url(url) ==
    IF Contains(url.query, NoUnfurl)
    THEN /\ Continue
         /\ UNCHANGED parses
    ELSE /\ parses' = Append(parses, [link |-> idx, path |-> url.path,
                                      fragment |-> url.fragment])
         /\ Parsed(parse_path(url.path, Some(url.fragment)))

\* lines 472-490: the head of one iteration, up to the handler
Classify ==
    /\ pc = "loop"
    /\ idx <= Len(links)
    /\ Url(urlparse(RemoveBackslashes(links[idx])))
    /\ UNCHANGED <<event_type, links, gets, unfurls>>
    /\ UNCHANGED parseVars
    /\ UNCHANGED textVars

\* line 491, get_data_from_api: the next GET of the handler, its answer and
\* whether it raised
Fetch ==
    /\ pc = "fetch"
    /\ LET h == Val(handler)
           paths == ApiPaths(h, Val(path_info))
           n == Len(data) + 1
       IN  \E answer \in Answers(h, n) :
              /\ gets' = Append(gets, [link |-> idx, method |-> "GET",
                                       api_path |-> paths[n],
                                       error |-> answer.error])
              /\ IF answer.error # "" THEN Propagate(answer.error)
                 ELSE /\ data' = Append(data, answer)
                      /\ pc' = IF n = Len(paths) THEN "build" ELSE "fetch"
                      /\ UNCHANGED <<idx, path_info, handler, response>>
    /\ UNCHANGED <<event_type, links, parses, unfurls>>
    /\ UNCHANGED parseVars
    /\ UNCHANGED textVars

\* the build step with the attachment keyed and linked by the url unfurl
\* parsed (the raw url without its backslashes)
BuildAndSend_parsed_url ==
    /\ pc = "build"
    /\ LET raw_url == RemoveBackslashes(links[idx])
           built == build(Val(handler), data)
       IN  IF ~Returned(built)
           THEN /\ Propagate(built.exc)
                /\ UNCHANGED unfurls
           ELSE LET attachment == [footer |-> Val(built.value).footer,
                                   title_link |-> raw_url]
                IN  /\ unfurls' = Append(unfurls,
                           [link |-> idx, method |-> "chat.unfurl",
                            channel |-> "channel", ts |-> "message_ts",
                            unfurls |-> (raw_url :> attachment)])
                    /\ idx' = idx + 1
                    /\ pc' = "loop"
                    /\ path_info' = None
                    /\ handler' = None
                    /\ data' = <<>>
                    /\ UNCHANGED response
    /\ UNCHANGED <<event_type, links, parses, gets>>
    /\ UNCHANGED parseVars
    /\ UNCHANGED textVars

\* lines 491-500: the handler builds the attachment from the documents;
\* unfurl sets its title_link and posts it with chat.unfurl
BuildAndSend ==
    /\ pc = "build"
    /\ LET raw_url == links[idx]
           built == build(Val(handler), data)
       IN  IF ~Returned(built)
           THEN /\ Propagate(built.exc)
                /\ UNCHANGED unfurls
           ELSE LET attachment == [footer |-> Val(built.value).footer,
                                   title_link |-> raw_url]
                IN  /\ unfurls' = Append(unfurls,
                           [link |-> idx, method |-> "chat.unfurl",
                            channel |-> "channel", ts |-> "message_ts",
                            unfurls |-> (raw_url :> attachment)])
                    /\ idx' = idx + 1
                    /\ pc' = "loop"
                    /\ path_info' = None
                    /\ handler' = None
                    /\ data' = <<>>
                    /\ UNCHANGED response
    /\ UNCHANGED <<event_type, links, parses, gets>>
    /\ UNCHANGED parseVars
    /\ UNCHANGED textVars

\* line 502: after the last link
Finish ==
    /\ pc = "loop"
    /\ idx > Len(links)
    /\ response' = Return(OK_RESPONSE)
    /\ pc' = "done"
    /\ UNCHANGED <<event_type, links, idx, path_info, handler, data, parses,
                   gets, unfurls>>
    /\ UNCHANGED parseVars
    /\ UNCHANGED textVars

Next == Receive \/ Classify \/ Fetch \/ BuildAndSend \/ Finish

Spec == Init /\ [][Next]_vars

----------------------------------------------------------------------------
(* Properties of parse_path, quoted_id and get_handler (SpecParse).        *)

Called == ret # Pending
Info == Val(ret.value)
LastChar(s) == s[Len(s)]

\* C3 as stated: for every path p that parse_path accepts with fragment f,
\* parse_path(p + "/", f) returns the same reference.
C3_TrailingSlashAnyValidPath ==
    (Called /\ Returned(ret))
        => parse_path(path \o <<Slash>>, fragment) = ret

\* C3, amended: for every path p that parse_path accepts with fragment f and
\* that does not already end in "/" or in a newline, parse_path(p + "/", f)
\* returns the same reference.
C3_TrailingSlashIgnored ==
    (Called /\ Returned(ret) /\ LastChar(path) \notin {Slash, Newline})
        => parse_path(path \o <<Slash>>, fragment) = ret

C3_Witness ==
    /\ Called /\ Returned(ret)
    /\ LastChar(path) \notin {Slash, Newline}
    /\ Info.type = "note_issues"
    /\ Info.team = <<"a">>
    /\ Info.subgroups = Some(<<"a">>)

\* the segments of a path: the text between its slashes
RECURSIVE SplitSlash(_)
SplitSlash(s) ==
    LET i == RunEnd(s, 1, TokenChars \cup {".", Newline})
    IN  IF i > Len(s) THEN <<s>>
        ELSE <<Slice(s, 1, i)>> \o SplitSlash(Slice(s, i + 1, Len(s) + 1))

IsToken(g) == g # <<>> /\ \A k \in 1..Len(g) : g[k] \in TokenChars
IsWord(g) == g # <<>> /\ \A k \in 1..Len(g) : g[k] \in WordChars
IsKeyword(g) == \E k \in 1..Len(TypeKeywords) : g = KeywordChars[TypeKeywords[k]]

RECURSIVE JoinWith(_, _)
JoinWith(segs, sep) ==
    IF Len(segs) = 1 THEN Head(segs)
    ELSE Head(segs) \o sep \o JoinWith(Tail(segs), sep)

\* /team/s1/.../sn/project/(-/)?type/identifier: the names before the type
\* keyword, without the "-" marker when it is there
FormNames(p) ==
    LET g == SplitSlash(p)
        n == Len(g)
        marker == n >= 6 /\ g[n - 2] = <<"-">>
    IN  SubSeq(g, 2, IF marker THEN n - 3 ELSE n - 2)

IsResourceForm(p) ==
    LET g == SplitSlash(p)
        n == Len(g)
    IN  /\ n >= 5
        /\ g[1] = <<>>
        /\ \A k \in 2..(n - 2) : IsToken(g[k])
        /\ IsKeyword(g[n - 1])
        /\ IsWord(g[n])

\* C4: for a path /team/s1/.../sn/project/(-/)?type/identifier, parse_path
\* returns (always, when there is no fragment) a reference that is not a
\* Project, with team the first segment, project the last segment before the
\* type keyword, identifier the segment after it and subgroups s1/.../sn in
\* order, absent when n = 0.
C4_ResourceFields ==
    (Called /\ IsResourceForm(path)) =>
        LET names == FormNames(path)
            g == SplitSlash(path)
        IN  /\ ~Truthy(fragment) => Returned(ret)
            /\ Returned(ret) =>
                /\ Info.type # "project"
                /\ Info.team = names[1]
                /\ Info.project = names[Len(names)]
                /\ Info.identifier = Some(g[Len(g)])
                /\ Info.subgroups =
                       IF Len(names) = 2 THEN None
                       ELSE Some(JoinWith(SubSeq(names, 2, Len(names) - 1),
                                          <<Slash>>))

C4_Witness ==
    /\ Called /\ IsResourceForm(path) /\ Returned(ret)
    /\ Len(FormNames(path)) = 4
    /\ FormNames(path)[2] # FormNames(path)[3]
    /\ Info.type = "jobs"

\* C5: parse_path raises ValueError for every path that has a single segment
\* or a character other than a word character, "-" and "/".
C5_InvalidPathRaises ==
    LET g == SplitSlash(path)
        single == Len(g) <= 2 \/ (Len(g) = 3 /\ g[3] = <<>>)
        badchar == \E k \in 1..Len(path) : path[k] \notin SubgroupChars
    IN  (Called /\ (single \/ badchar)) => ret = Raise("ValueError")

NoteTypes == {"note_issues", "note_merge_requests"}

\* C6: in every reference parse_path returns, the kind is Project iff
\* identifier and note are both absent, and the kind is a Note variant iff
\* the note is present.
C6_KindMatchesFields ==
    (Called /\ Returned(ret)) =>
        /\ Info.type = "project" <=> (Info.identifier = None /\ Info.note = None)
        /\ Info.type \in NoteTypes <=> Info.note # None

C6_Witness ==
    /\ Called /\ Returned(ret)
    /\ Info.type = "note_merge_requests"
    /\ Info.note = Some(<<"1">>)

\* C7: in every reference parse_path returns, subgroups is absent or a
\* non-empty string that neither starts nor ends with "/".
C7_SubgroupsNoOuterSlash ==
    (Called /\ Returned(ret) /\ Info.subgroups # None) =>
        LET sg == Val(Info.subgroups)
        IN  sg # <<>> /\ sg[1] # Slash /\ LastChar(sg) # Slash

\* the whole text of f after its first "_"
AfterFirstUnderscore(f) ==
    Slice(f, SetMin({k \in 1..Len(f) : f[k] = "_"}) + 1, Len(f) + 1)

HasUnderscore(f) == \E k \in 1..Len(f) : f[k] = "_"

\* C8: when the path matches the resource pattern: with a non-empty fragment
\* (of an issue or a merge request) the kind is the Note variant and the note
\* is the whole text of the fragment after its first "_"; with no fragment or
\* an empty one the kind is the type keyword and the note is absent.
C8_NoteIsTextAfterFirstUnderscore ==
    (Called /\ Match(1, path) # None) =>
        LET type == Val(Match(1, path)).type
        IN  IF Truthy(fragment)
            THEN (type \in {"issues", "merge_requests"}
                  /\ HasUnderscore(Val(fragment))) =>
                     /\ Returned(ret)
                     /\ Info.type = "note_" \o type
                     /\ Info.note = Some(AfterFirstUnderscore(Val(fragment)))
            ELSE /\ Returned(ret)
                 /\ Info.type = type
                 /\ Info.note = None

\* s with every "/" replaced by "%2F"
RECURSIVE EscapeSlashes(_)
EscapeSlashes(s) ==
    IF s = <<>> THEN <<>>
    ELSE (IF Head(s) = Slash THEN <<"%", "2", "F">> ELSE <<Head(s)>>)
         \o EscapeSlashes(Tail(s))

\* C9: quoted_id is team, subgroups (if present) and project joined by "/"
\* with every "/" as %2F: no literal "/" is left and nothing is encoded twice
\* (the "%" of an escape is not itself escaped).
C9_QuotedId ==
    (Called /\ Returned(ret)) =>
        LET q == quoted_id(Info)
            parts == <<Info.team>> \o Info.subgroups \o <<Info.project>>
        IN  /\ q = EscapeSlashes(JoinWith(parts, <<Slash>>))
            /\ \A k \in 1..Len(q) : q[k] # Slash
            /\ \A k \in 1..Len(q) : q[k] = "%" => StartsAt(q, k, <<"%", "2", "F">>)

C9_Witness ==
    /\ Called /\ Returned(ret)
    /\ Info.subgroups = Some(<<"a", Slash, "a">>)
    /\ quoted_id(Info) = <<"a", "%", "2", "F", "a", "%", "2", "F", "a",
                           "%", "2", "F", "a">>

\* the handler test_get_handler expects for each PathType
DedicatedHandler ==
    [issues |-> "get_issues_info",
     pipelines |-> "get_pipelines_info",
     jobs |-> "get_jobs_info",
     commit |-> "get_commit_info",
     merge_requests |-> "get_merge_requests_info",
     project |-> "get_project_info",
     note_issues |-> "get_note_issues_info",
     note_merge_requests |-> "get_note_merge_requests_info"]

\* C10: get_handler gives each of the eight PathType members its own
\* dedicated handler, and returns one for every reference parse_path returns.
C10_HandlerForEveryKind ==
    /\ \A k \in PathType :
          get_handler(PathInfo(k, <<"a">>, <<"b">>, None, None, None))
              = Return(DedicatedHandler[k])
    /\ \A k, l \in PathType : HANDLERS[k] = HANDLERS[l] => k = l
    /\ (Called /\ Returned(ret)) =>
           get_handler(Info) = Return(DedicatedHandler[Info.type])

C10_Witness ==
    /\ Called /\ Returned(ret)
    /\ Info.type = "jobs"
    /\ get_handler(Info) = Return("get_jobs_info")

----------------------------------------------------------------------------
(* Properties of unfurl (Spec).                                            *)

Ended == pc = "done" /\ event_type # "url_verification"

\* C1: a failure on one link does not abort the processing of the remaining
\* links: when unfurl ends, no link after the one it was at is left without
\* its iteration (its fetch and its chat.unfurl call).
C1_FailureDoesNotAbortLoop == Ended => idx >= Len(links)

\* C2: for every event that is not the url verification, whatever errors the
\* links run into, unfurl ends by returning OK_RESPONSE; no error of a link
\* reaches the caller.
C2_AlwaysAcknowledges == Ended => response = Return(OK_RESPONSE)

\* the handler is about to build from documents one of which lacks a key the
\* builder reads
LacksRequiredKey ==
    /\ pc = "build"
    /\ \E n \in 1..Len(data) :
           \E k \in RequiredKeys(Val(handler))[n] : k \notin data[n].json

\* C11: a builder given a JSON object that lacks a key it requires fails
\* with an error and returns no attachment: unfurl then ends with that
\* error and issues no chat.unfurl call for the link.
C11_MissingKeyFailsBuild ==
    [][LacksRequiredKey =>
          /\ response' = Raise("KeyError")
          /\ pc' = "done"
          /\ unfurls' = unfurls]_vars

\* the merge-request builder has failed on the empty object {}
C11_Witness ==
    /\ pc = "done"
    /\ handler = Some("get_merge_requests_info")
    /\ data = <<Json({})>>
    /\ response = Raise("KeyError")
    /\ unfurls = <<>>

\* the text c holds the marker no_unfurl after its first "?" and before
\* its first "#", the "?" standing before the "#"
MarkerInQuery(c, mark, hash) ==
    /\ mark < hash
    /\ \E i \in (mark + 1)..(hash - Len(NoUnfurl)) : StartsAt(c, i, NoUnfurl)

\* the query string of the raw url u, read without its backslashes, holds
\* the marker no_unfurl (the singleton sets name the values computed once)
HasMarker(u) ==
    \E c \in {RemoveBackslashes(u)} :
        \E mark \in {Find(c, 1, {"?"})} :
            \E hash \in {Find(c, 1, {"#"})} : MarkerInQuery(c, mark, hash)

\* no call of parse_path, GET or chat.unfurl was made for a marked link
NoCallForMarked ==
    \A i \in 1..Len(links) :
        HasMarker(links[i]) =>
            /\ \A k \in 1..Len(parses) : parses[k].link # i
            /\ \A k \in 1..Len(gets) : gets[k].link # i
            /\ \A k \in 1..Len(unfurls) : unfurls[k].link # i

\* C12: a link whose query string contains the marker no_unfurl is skipped
\* before classification: no parse_path call, no GET and no chat.unfurl call
\* is ever made for it, and the loop goes on with the next link.
C12_MarkedLinkSkipped ==
    [][/\ NoCallForMarked'
       /\ (pc = "loop" /\ idx <= Len(links) /\ HasMarker(links[idx])) =>
              /\ idx' = idx + 1
              /\ pc' = "loop"
              /\ UNCHANGED <<parses, gets, unfurls, response>>]_vars

\* a marked link was passed over and the link after it was unfurled
C12_Witness ==
    /\ Len(links) = 2
    /\ HasMarker(links[1])
    /\ urlparse(links[1]).fragment = <<"L", "1">>
    /\ Len(parses) = 1 /\ parses[1].link = 2
    /\ Len(unfurls) = 1 /\ unfurls[1].link = 2
    /\ response = Return(OK_RESPONSE)

\* the GETs issued for link i, in order
GetsOf(i) == SelectSeq(gets, LAMBDA g : g.link = i)

\* link i is resolved: the loop has gone past it and every GET its handler
\* needed was issued and answered (a link the loop skips has no GET; a link
\* whose fetch or build fails ends unfurl at that link)
Resolved(i) ==
    /\ i < idx
    /\ GetsOf(i) # <<>>
    /\ \A k \in 1..Len(GetsOf(i)) : GetsOf(i)[k].error = ""

\* C13: chat.unfurl is called only for resolved links, once for each, in the
\* order of the links; each call carries one attachment, keyed by the
\* link's raw url and with that raw url as title_link, and every GET of the
\* link was issued and answered before the call.
C13_OneUnfurlPerResolvedLink ==
    /\ \A i \in 1..Len(links) :
          Cardinality({k \in 1..Len(unfurls) : unfurls[k].link = i})
              = IF Resolved(i) THEN 1 ELSE 0
    /\ \A k \in 1..Len(unfurls) :
          /\ unfurls[k].method = "chat.unfurl"
          /\ unfurls[k].link \in 1..Len(links)
          /\ \A l \in 1..(k - 1) : unfurls[l].link < unfurls[k].link
          /\ DOMAIN unfurls[k].unfurls = {links[unfurls[k].link]}
          /\ unfurls[k].unfurls[links[unfurls[k].link]].title_link
                 = links[unfurls[k].link]

\* two links were unfurled in order, the first one a url with backslashes,
\* the second one a note, whose handler fetches twice
C13_Witness ==
    /\ Len(links) = 2
    /\ Len(unfurls) = 2
    /\ RemoveBackslashes(links[1]) # links[1]
    /\ Len(GetsOf(1)) = 1 /\ Len(GetsOf(2)) = 2
    /\ unfurls[1].link = 1 /\ unfurls[2].link = 2
    /\ unfurls[2].unfurls[links[2]].footer = "Issue note"

\* /api/v4/projects/{quoted_id}
ProjectUrl(info) ==
    <<"/", "a", "p", "i", "/", "v", "4", "/", "p", "r", "o", "j", "e", "c",
      "t", "s", "/">> \o quoted_id(info)

\* the part of the path after the project that names the resource's kind
KindPart(type) ==
    CASE type \in {"issues", "note_issues"} -> <<"i", "s", "s", "u", "e", "s">>
      [] type \in {"merge_requests", "note_merge_requests"} ->
            <<"m", "e", "r", "g", "e", "_", "r", "e", "q", "u", "e", "s", "t",
              "s">>
      [] type = "commit" ->
            <<"r", "e", "p", "o", "s", "i", "t", "o", "r", "y", "/", "c", "o",
              "m", "m", "i", "t", "s">>
      [] type = "pipelines" -> <<"p", "i", "p", "e", "l", "i", "n", "e", "s">>
      [] type = "jobs" -> <<"j", "o", "b", "s">>

\* .../{kind}/{identifier}
BaseUrl(info) ==
    ProjectUrl(info) \o <<Slash>> \o KindPart(info.type) \o <<Slash>>
    \o Val(info.identifier)

\* the GETs the claim expects for a reference, in order
ExpectedGets(info) ==
    IF info.type \in NoteTypes
    THEN <<BaseUrl(info) \o <<"/", "n", "o", "t", "e", "s", "/">>
           \o Val(info.note),
           BaseUrl(info)>>
    ELSE IF info.type = "project" THEN <<ProjectUrl(info)>>
    ELSE <<BaseUrl(info)>>

\* the handler of link i is not in the middle of its fetches
FetchesOver(i) == i < idx \/ (i = idx /\ pc # "fetch")

\* the GETs g issued for a link are those expected, e, as far as they went:
\* in order, each after the success of the one before, and all of them once
\* the handler is over unless one failed
GetsAsExpected(i, g, e) ==
    /\ Len(g) <= Len(e)
    /\ \A k \in 1..Len(g) : g[k].method = "GET" /\ g[k].api_path = e[k]
    /\ \A k \in 2..Len(g) : g[k - 1].error = ""
    /\ FetchesOver(i) =>
           /\ Len(g) >= 1
           /\ Len(g) = Len(e) \/ g[Len(g)].error # ""

\* the outcome of the parse_path call made for link i, None if none was made
ParsedOf(i) ==
    LET calls == SelectSeq(parses, LAMBDA c : c.link = i)
    IN  IF calls = <<>> THEN None
        ELSE Some(parse_path(calls[1].path, Some(calls[1].fragment)))

\* C16: for a note on an issue (resp. on a merge request) the handler GETs
\* .../issues/{identifier}/notes/{note} (resp. .../merge_requests/...) and
\* then the issue (resp. merge request) itself, the second only if the first
\* succeeded; for every other kind it GETs once, on the path of the kind;
\* no other call than GET is made on the platform.
C16_GetsPerKind ==
    \A i \in 1..Len(links) :
        \E parsed \in {ParsedOf(i)} :
            IF parsed # None /\ Returned(Val(parsed))
            THEN \E info \in {Val(Val(parsed).value)} :
                    GetsAsExpected(i, GetsOf(i), ExpectedGets(info))
            ELSE GetsOf(i) = <<>>

\* a note on an issue was fetched with two GETs and a note on a merge
\* request with one, its note fetch having failed
C16_Witness ==
    /\ Len(links) = 2
    /\ \E parsed \in {ParsedOf(1)} :
           /\ parsed # None /\ Returned(Val(parsed))
           /\ Val(Val(parsed).value).type = "note_issues"
    /\ Len(GetsOf(1)) = 2
    /\ GetsOf(1)[2].api_path =
           <<"/", "a", "p", "i", "/", "v", "4", "/", "p", "r", "o", "j", "e",
             "c", "t", "s", "/", "a", "%", "2", "F", "b", "/", "i", "s", "s",
             "u", "e", "s", "/", "7">>
    /\ Len(GetsOf(2)) = 1
    /\ GetsOf(2)[1].error = "HTTPError"
    /\ GetsOf(2)[1].api_path =
           <<"/", "a", "p", "i", "/", "v", "4", "/", "p", "r", "o", "j", "e",
             "c", "t", "s", "/", "a", "%", "2", "F", "b", "/", "m", "e", "r",
             "g", "e", "_", "r", "e", "q", "u", "e", "s", "t", "s", "/", "7",
             "/", "n", "o", "t", "e", "s", "/", "1">>
    /\ pc = "done"

----------------------------------------------------------------------------
(* Properties of prepare_description and of the builders' texts (SpecText). *)

Prepared == handler = None /\ prepared # Pending

\* the end c of the prefix of t cut at the last whitespace boundary at or
\* before the limit w: a non-blank character followed by a blank (0 if
\* there is no such boundary)
LastBoundary(t, w) ==
    LET ends == {c \in 1..w : /\ c < Len(t)
                               /\ t[c] \notin Whitespace
                               /\ t[c + 1] \in Whitespace}
    IN  IF ends = {} THEN 0 ELSE CHOOSE c \in ends : \A e \in ends : e <= c

\* the text r is the text t cut as C14 states for a text over the width w
CutAtWhitespace(r, t, w) ==
    /\ r # <<>>
    /\ r[Len(r)] = Ellipsis
    /\ Len(r) - 1 <= w
    /\ LastBoundary(t, w) > 0 =>
           r = SubSeq(t, 1, LastBoundary(t, w)) \o <<Ellipsis>>

\* C14 as stated: a trimmed, markup-stripped text that fits within the width
\* is returned unchanged; a longer one is cut at the last whitespace boundary
\* at or before the limit and gets a single ellipsis, the output without
\* the ellipsis being no longer than the width (for a width of at least 1).
C14_UnchangedOrCutAtWhitespace ==
    (Prepared /\ width >= 1) =>
        \E t \in {strip(strip_html_tags(description))} :
            IF Len(t) <= width THEN prepared = Return(t)
            ELSE /\ Returned(prepared)
                 /\ CutAtWhitespace(Val(prepared.value), t, width)

\* the text s, trimmed, with each run of whitespace replaced by one blank
RECURSIVE Collapsed(_)
Collapsed(s) ==
    IF s = <<>> THEN <<>>
    ELSE IF Head(s) \in Whitespace
    THEN IF \A k \in 1..Len(s) : s[k] \in Whitespace THEN <<>>
         ELSE IF s[2] \in Whitespace THEN Collapsed(Tail(s))
         ELSE <<" ">> \o Collapsed(Tail(s))
    ELSE <<Head(s)>> \o Collapsed(Tail(s))

\* the text t has a place to cut after position c: c is 0, or t[c] is not a
\* blank and a blank follows it or a hyphen stands on either side
CutPlace(t, c) ==
    \/ c = 0
    \/ /\ t[c] # " "
       /\ t[c + 1] = " " \/ t[c + 1] = "-" \/ t[c] = "-"

\* the text r is a prefix of t, cut at a cut place, and an ellipsis; with
\* the ellipsis it is no longer than the width w, and no longer prefix of
\* whole words would fit with the ellipsis
CutToFit(r, t, w) ==
    /\ r # <<>>
    /\ r[Len(r)] = Ellipsis
    /\ Len(r) <= w
    /\ SubSeq(r, 1, Len(r) - 1) = SubSeq(t, 1, Len(r) - 1)
    /\ CutPlace(t, Len(r) - 1)
    /\ \A c \in Len(r)..(w - 1) : ~(t[c] # " " /\ t[c + 1] = " ")

\* C14, amended: for a width of at least 1, with t the markup-stripped text,
\* trimmed and with each run of whitespace replaced by one blank: if t fits
\* within the width, t is returned; otherwise the output is a prefix of t
\* cut at a whitespace boundary or next to a hyphen (or empty), followed by
\* a single ellipsis, and its length with the ellipsis is <= width.
C14_CollapsedOrCutToFit ==
    (Prepared /\ width >= 1) =>
        \E t \in {Collapsed(strip(strip_html_tags(description)))} :
            IF Len(t) <= width THEN prepared = Return(t)
            ELSE /\ Returned(prepared)
                 /\ CutToFit(Val(prepared.value), t, width)

\* a description with a newline, which does not fit, was cut after its
\* second word
C14_Witness ==
    /\ Prepared
    /\ width = 4
    /\ description = <<"a", Newline, "a", " ", "a">>
    /\ prepared = Return(<<"a", " ", "a", Ellipsis>>)

\* a builder has made the "text" entry of its attachment
Built == handler # None /\ prepared # Pending

\* the width C15 names for each builder
SanitizerWidth(h) ==
    IF h \in {"get_issues_info", "get_note_issues_info",
              "get_note_merge_requests_info"}
    THEN 300 ELSE 100

\* C15: the "text" of every attachment is the upstream description or body
\* passed through prepare_description (markup stripped, then truncated),
\* with width 300 for issues, issue notes and merge-request notes and width
\* 100 otherwise; no tag of the upstream text is left in it.
C15_FreeTextSanitized ==
    Built =>
        /\ prepared = prepare_description(description,
                                          SanitizerWidth(Val(handler)))
        /\ \A k \in 1..Len(Val(prepared.value)) :
               Val(prepared.value)[k] # "<"

====
